---- MODULE Spec2Model ----
(***************************************************************************)
(* Side-set mutation ledger (src/ss_ledger.py, class SSLedger) over the    *)
(* backing-store facade (src/exodus.py, class Exodus): specification Spec. *)
(* Opening a database and the node-set entry points of the handle          *)
(* (src/exodus.py, Exodus.__init__, add_nodeset, remove_nodeset,           *)
(* merge_nodeset): specification HandleSpec.                               *)
(*                                                                         *)
(* Python values are modelled as follows.                                  *)
(*   - a list / numpy array is a sequence;                                 *)
(*   - a value that may be None is None == <<>> or Some(v) == <<v>>;       *)
(*   - a string is a sequence of one-character strings;                    *)
(*   - a netCDF dimension or variable name with a numeric suffix, such as  *)
(*     "elem_ss" + str(i+1), is the pair <<"elem_ss", i+1>>; a name        *)
(*     without suffix carries the suffix 0;                                *)
(*   - list positions are 0-based as in the source; Seq[i + 1] reads       *)
(*     position i;                                                         *)
(*   - element and side numbers are integers; a distribution factor is a   *)
(*     float and is held as its number of halves (9 is 4.5, 8 is 4.0).     *)
(***************************************************************************)
EXTENDS Integers, Sequences, FiniteSets, TLC

VARIABLES
    ex,             \* self.ex.data: the backing store (dimensions, variables)
    num_ss,         \* self.num_ss
    ss_prop1,       \* self.ss_prop1: external ids
    ss_status,      \* self.ss_status
    ss_sizes,       \* self.ss_sizes
    ss_names,       \* self.ss_names
    num_dist_fact,  \* self.num_dist_fact
    ss_dist_fact,   \* self.ss_dist_fact: None (not loaded) or Some(array)
    ss_elem,        \* self.ss_elem: None (not loaded) or Some(array)
    ss_sides,       \* self.ss_sides: None (not loaded) or Some(array)
    sink,           \* the dataset handed to write, as write left it
    reads,          \* log of the member / weight arrays read from the store
    last,           \* the last call: operation, arguments, outcome
    pre,            \* the ledger, read log, store and sink when the last call started
    created,        \* ids of the successful creates since base_count was taken
    base_count,     \* num_ss at construction or right after the last remove
    ncalls,         \* number of calls made so far
    mode,           \* self.mode of the database handle; "closed" while none is open
    nodesets        \* the node sets of the handle's ledger: a sequence of [id, nodes]

vars == <<ex, num_ss, ss_prop1, ss_status, ss_sizes, ss_names, num_dist_fact,
          ss_dist_fact, ss_elem, ss_sides, sink, reads, last, pre, created, base_count,
          ncalls, mode, nodesets>>

(***************************************************************************)
(* Bounds of the model.                                                    *)
(***************************************************************************)
\* the number of ledger calls made in one session
MaxCalls == 4

(***************************************************************************)
(* Program constants.                                                      *)
(***************************************************************************)
MAX_NAME_LENGTH == 32
MAX_STR_LENGTH == 32
MAX_LINE_LENGTH == 80

None == <<>>
Some(v) == <<v>>

\* str(c) of a masked character of a netCDF character array
Masked == "--"

Range(s) == {s[i] : i \in 1..Len(s)}

(***************************************************************************)
(* The backing-store facade: the part of class Exodus the ledger calls.    *)
(* data is a record [dimensions, variables], each a function from names.   *)
(***************************************************************************)
Name(base) == <<base, 0>>
Suffixed(base, i) == <<base, i>>

\* Exodus.num_side_sets: the dimension's size, 0 on KeyError
num_side_sets(data) ==
    IF Name("num_side_sets") \in DOMAIN data.dimensions
    THEN data.dimensions[Name("num_side_sets")]
    ELSE 0

\* Exodus._lookup_id('sideset', num): the 1-based position of the first entry of
\* the store's ss_prop1 table equal to num; 0 stands for the KeyError raised when
\* the table is missing or holds no such entry.
lookup_id(data, num) ==
    IF Name("ss_prop1") \notin DOMAIN data.variables THEN 0
    ELSE LET table == data.variables[Name("ss_prop1")]
             hits == {i \in 1..Len(table) : table[i] = num}
         IN  IF hits = {} THEN 0
             ELSE CHOOSE i \in hits : \A j \in hits : i <= j

\* Exodus.get_side_set(id): (elements, sides) of the set with that external id.
\* err is TRUE when KeyError is raised; read lists the variables read before.
get_side_set(data, id) ==
    LET internal_id == lookup_id(data, id)
        elem_name == Suffixed("elem_ss", internal_id)
        side_name == Suffixed("side_ss", internal_id)
    IN  IF num_side_sets(data) = 0 \/ internal_id = 0
             \/ elem_name \notin DOMAIN data.variables
        THEN [err |-> TRUE, elem |-> <<>>, side |-> <<>>, read |-> <<>>]
        ELSE IF side_name \notin DOMAIN data.variables
        THEN [err |-> TRUE, elem |-> <<>>, side |-> <<>>, read |-> <<elem_name>>]
        ELSE [err |-> FALSE,
              elem |-> data.variables[elem_name],
              side |-> data.variables[side_name],
              read |-> <<elem_name, side_name>>]

\* Exodus.get_side_set_df(id): the distribution factors of the set with that id
get_side_set_df(data, id) ==
    LET internal_id == lookup_id(data, id)
        df_name == Suffixed("dist_fact_ss", internal_id)
    IN  IF num_side_sets(data) = 0 \/ internal_id = 0
             \/ df_name \notin DOMAIN data.variables
        THEN [err |-> TRUE, df |-> <<>>, read |-> <<>>]
        ELSE [err |-> FALSE, df |-> data.variables[df_name], read |-> <<df_name>>]

\* Exodus.get_side_set_params(id): (number of entries, number of distribution
\* factors), both read from dimensions
get_side_set_params(data, id) ==
    LET internal_id == lookup_id(data, id)
        size_name == Suffixed("num_side_ss", internal_id)
        df_name == Suffixed("num_df_ss", internal_id)
    IN  IF num_side_sets(data) = 0 \/ internal_id = 0
             \/ size_name \notin DOMAIN data.dimensions
             \/ df_name \notin DOMAIN data.dimensions
        THEN [err |-> TRUE, num_entries |-> 0, num_df |-> 0]
        ELSE [err |-> FALSE,
              num_entries |-> data.dimensions[size_name],
              num_df |-> data.dimensions[df_name]]

\* Exodus.lineparse(line): the characters of a netCDF character row that are
\* not masked, in order (str(c)[2] is the character of the byte string c)
lineparse(line) == SelectSeq(line, LAMBDA c : c # Masked)

\* str(i) for the fallback name "ss" + str(i)
str(i) ==
    IF i < 10 THEN <<<<"0", "1", "2", "3", "4", "5", "6", "7", "8", "9">>[i + 1]>>
    ELSE <<"#">>

(***************************************************************************)
(* Backing stores the ledger is constructed over.                          *)
(***************************************************************************)
\* a name row of the store's ss_names variable: len_name characters, the unused
\* tail masked
NameRow(name) == name \o [i \in 1..(MAX_NAME_LENGTH + 1 - Len(name)) |-> Masked]

\* The netCDF layout of a file holding the side sets `sets`, a sequence of
\* [id, status, name, elem, side, df]; df = None leaves out the set's
\* dist_fact_ss variable. with_names tells whether ss_names is stored.
ExodusFile(sets, with_names) ==
    LET n == Len(sets)
        dimNames == (IF n > 0 THEN {Name("num_side_sets")} ELSE {})
                    \cup {Suffixed("num_side_ss", i) : i \in 1..n}
                    \cup {Suffixed("num_df_ss", i) : i \in 1..n}
        varNames == (IF n > 0 THEN {Name("ss_prop1"), Name("ss_status")} ELSE {})
                    \cup (IF n > 0 /\ with_names THEN {Name("ss_names")} ELSE {})
                    \cup {Suffixed("elem_ss", i) : i \in 1..n}
                    \cup {Suffixed("side_ss", i) : i \in 1..n}
                    \cup {Suffixed("dist_fact_ss", i) :
                            i \in {j \in 1..n : sets[j].df # None}}
    IN  [dimensions |->
            [d \in dimNames |->
                IF d[1] = "num_side_sets" THEN n
                ELSE IF d[1] = "num_side_ss" THEN Len(sets[d[2]].elem)
                ELSE IF sets[d[2]].df = None THEN 0 ELSE Len(sets[d[2]].df[1])],
         variables |->
            [v \in varNames |->
                IF v[1] = "ss_prop1" THEN [i \in 1..n |-> sets[i].id]
                ELSE IF v[1] = "ss_status" THEN [i \in 1..n |-> sets[i].status]
                ELSE IF v[1] = "ss_names" THEN [i \in 1..n |-> NameRow(sets[i].name)]
                ELSE IF v[1] = "elem_ss" THEN sets[v[2]].elem
                ELSE IF v[1] = "side_ss" THEN sets[v[2]].side
                ELSE sets[v[2]].df[1]]]

\* no side sets at all: the file has no num_side_sets dimension
EmptyFile == ExodusFile(<<>>, FALSE)

\* one named side set, id 4, without a distribution-factor variable
OneSetFile ==
    ExodusFile(<<[id |-> 4, status |-> 1, name |-> <<"c", "a", "n">>,
                  elem |-> <<10, 11>>, side |-> <<1, 2>>, df |-> None]>>,
               TRUE)

\* two side sets with distribution factors and no ss_names variable
TwoSetFile ==
    ExodusFile(<<[id |-> 7, status |-> 1, name |-> <<>>,
                  elem |-> <<20, 21>>, side |-> <<3, 4>>, df |-> Some(<<8, 9>>)],
                 [id |-> 4, status |-> 1, name |-> <<>>,
                  elem |-> <<10>>, side |-> <<1>>, df |-> Some(<<5>>)]>>,
               FALSE)

Stores == {EmptyFile, OneSetFile, TwoSetFile}

(***************************************************************************)
(* The dataset write fills: the netCDF4 calls of SSLedger.write.           *)
(* data is a record [dimensions, variables, unlimited]; unlimited is the   *)
(* set of the dimensions created with size 0.                              *)
(***************************************************************************)
\* netCDF4's default fill value of an int32 variable
FillValue == 0 - 2147483647

\* netCDF4's default fill value of a float64 variable, NC_FILL_DOUBLE
\* (9.969209968386869e+36): it is beyond the integers, and is held as a value
\* of its own that no entry of a side set takes
FillDouble == <<"NC_FILL_DOUBLE">>

\* the value a variable of the given type holds where nothing was assigned
default_fill(type) == IF type = "float64" THEN FillDouble ELSE FillValue

\* f with the key k bound to v
Put(f, k, v) == [x \in DOMAIN f \cup {k} |-> IF x = k THEN v ELSE f[x]]

\* the dataset a write starts from, as a mode-"w" open leaves it: the three
\* string-length dimensions and nothing of the side sets
FreshData ==
    [dimensions |-> [d \in {Name("len_string"), Name("len_name"), Name("len_line")} |->
                        IF d = Name("len_string") THEN MAX_STR_LENGTH + 1
                        ELSE IF d = Name("len_name") THEN MAX_NAME_LENGTH + 1
                        ELSE MAX_LINE_LENGTH + 1],
     variables |-> [v \in {} |-> <<>>],
     unlimited |-> {}]

\* data.createDimension(name, size); size 0 creates an unlimited dimension
createDimension(data, name, size) ==
    [data EXCEPT !.dimensions = Put(@, name, size),
                 !.unlimited = IF size = 0 THEN @ \cup {name} ELSE @]

\* data.createVariable(name, type, dimensions=(dim)): as many fill values as
\* the dimension is long
createVariable(data, name, type, dim) ==
    [data EXCEPT !.variables =
        Put(@, name, [i \in 1..data.dimensions[dim] |-> default_fill(type)])]

\* data.createVariable("ss_names", "|S1", ("num_side_sets", "len_name")): rows
\* of masked characters
createNames(data) ==
    [data EXCEPT !.variables =
        Put(@, Name("ss_names"),
            [i \in 1..data.dimensions[Name("num_side_sets")] |->
                [j \in 1..data.dimensions[Name("len_name")] |-> Masked]])]

\* data[name][:] = arr for a variable over dim. An unlimited dimension grows
\* to the array; otherwise the array must have the dimension's length or one
\* entry, which is repeated; err stands for the ValueError raised if not.
setitem(data, name, dim, arr) ==
    IF dim \in data.unlimited
    THEN [err |-> FALSE,
          data |-> [data EXCEPT !.variables = Put(@, name, arr),
                                !.dimensions[dim] = IF Len(arr) > @ THEN Len(arr) ELSE @]]
    ELSE IF Len(arr) = data.dimensions[dim]
    THEN [err |-> FALSE, data |-> [data EXCEPT !.variables = Put(@, name, arr)]]
    ELSE IF Len(arr) = 1
    THEN [err |-> FALSE,
          data |-> [data EXCEPT !.variables =
                        Put(@, name, [i \in 1..data.dimensions[dim] |-> arr[1]])]]
    ELSE [err |-> TRUE, data |-> data]

(***************************************************************************)
(* SSLedger                                                                *)
(***************************************************************************)
\* the ledger's fields as one record
Ledger ==
    [num_ss |-> num_ss, ss_prop1 |-> ss_prop1, ss_status |-> ss_status,
     ss_sizes |-> ss_sizes, ss_names |-> ss_names, num_dist_fact |-> num_dist_fact,
     ss_dist_fact |-> ss_dist_fact, ss_elem |-> ss_elem, ss_sides |-> ss_sides]

\* what a call starts from
Snapshot ==
    [ledger |-> Ledger, reads |-> reads, ex |-> ex, sink |-> sink, nodesets |-> nodesets]

\* the side-set readers class Exodus defines
ExodusMethods == {"get_side_set", "get_side_set_df", "get_side_set_params"}

\* SSLedger(ex): "ok" or the error raised. Over a store without side sets the
\* loop of lines 23-35 is not entered. Otherwise its first pass calls
\* ex.get_sideset_params (line 32), a name class Exodus does not define, and
\* raises AttributeError.
SSLedger_outcome(data) ==
    IF num_side_sets(data) = 0 THEN "ok"
    ELSE IF "get_sideset_params" \notin ExodusMethods THEN "AttributeError"
    ELSE "ok"

\* SSLedger.__init__ raises: no ledger comes to exist
init_raises(data) == SSLedger_outcome(data) # "ok"

\* SSLedger.__init__(ex): the fields as the constructor leaves them over the
\* store data. When it raises, the first pass has appended to the four lists
\* of lines 24-30 and to no other (passes is how many passes appended).
SSLedger_init(data) ==
    LET n == num_side_sets(data)
        passes == IF init_raises(data) THEN 1 ELSE n
    IN  [num_ss |-> n,
         ss_prop1 |-> [i \in 1..passes |-> data.variables[Name("ss_prop1")][i]],
         ss_status |-> [i \in 1..passes |-> data.variables[Name("ss_status")][i]],
         ss_sizes |-> [i \in 1..passes |-> data.dimensions[Suffixed("num_side_ss", i)]],
         ss_names |-> [i \in 1..passes |->
                          IF Name("ss_names") \in DOMAIN data.variables
                          THEN lineparse(data.variables[Name("ss_names")][i])
                          ELSE <<"s", "s">> \o str(i - 1)],
         num_dist_fact |-> <<>>,
         ss_dist_fact |-> <<>>,
         ss_elem |-> <<>>,
         ss_sides |-> <<>>]

\* the record of a call: operation, arguments (None where the operation has no
\* such argument) and outcome, "ok" or the error raised
Call(op, elem_ids, side_ids, ss_id, ss_name, dist_fact, outcome) ==
    [op |-> op, elem_ids |-> elem_ids, side_ids |-> side_ids, ss_id |-> ss_id,
     ss_name |-> ss_name, dist_fact |-> dist_fact, outcome |-> outcome]

\* the record of the construction
Constructed(outcome) == Call("init", <<>>, <<>>, 0, <<>>, None, outcome)

NoCall == Constructed("ok")

\* SSLedger(ex) has run over a store. Where it raised there is no ledger: the
\* fields are those the constructor left behind and no operation can be
\* called on them (HasLedger).
Init ==
    /\ ex \in Stores
    /\ LET l == SSLedger_init(ex)
       IN  /\ num_ss = l.num_ss
           /\ ss_prop1 = l.ss_prop1
           /\ ss_status = l.ss_status
           /\ ss_sizes = l.ss_sizes
           /\ ss_names = l.ss_names
           /\ num_dist_fact = l.num_dist_fact
           /\ ss_dist_fact = l.ss_dist_fact
           /\ ss_elem = l.ss_elem
           /\ ss_sides = l.ss_sides
           /\ base_count = l.num_ss
    /\ sink = FreshData
    /\ reads = <<>>
    \* the ledger belongs to a handle opened for appending
    /\ mode = "a"
    /\ nodesets = <<>>
    /\ last = Constructed(SSLedger_outcome(ex))
    /\ pre = Snapshot
    /\ created = <<>>
    /\ ncalls = 0

\* a lookup that falls back to the last position instead of raising
find_sideset_num_keeps_last(prop1, count, ss_id) ==
    LET hits == {i \in 0..(count - 1) : prop1[i + 1] = ss_id}
    IN  IF hits = {} THEN count - 1
        ELSE CHOOSE i \in hits : \A j \in hits : i <= j

\* SSLedger.find_sideset_num(ss_id): the 0-based position of the first of the
\* first count entries of prop1 equal to ss_id; -1 stands for the IndexError
find_sideset_num(prop1, count, ss_id) ==
    LET hits == {i \in 0..(count - 1) : prop1[i + 1] = ss_id}
    IN  IF hits = {} THEN -1
        ELSE CHOOSE i \in hits : \A j \in hits : i <= j

\* the duplicate test comparing from the second entry on
id_in_ledger_skips_first(prop1, ss_id) ==
    ss_id \in {prop1[i] : i \in 2..Len(prop1)}

\* ss_id in self.ss_prop1 (add_sideset's duplicate test)
id_in_ledger(prop1, ss_id) == ss_id \in Range(prop1)

\* list.pop() without the position: the list without its last entry
pop_last(list, ndx) == SubSeq(list, 1, Len(list) - 1)

\* list.pop(ndx) as used by remove_sideset: the list without position ndx
pop(list, ndx) ==
    [i \in 1..(Len(list) - 1) |-> IF i <= ndx THEN list[i] ELSE list[i + 1]]

\* the element None of an object array; array elements proper are positive
NoneElem == 0 - 1

\* numpy.ravel of a value that may be None: None is the one-element array [None]
ravel(v) == IF v = None THEN <<NoneElem>> ELSE v[1]

\* numpy.append(arr, values): both flattened, values after arr
np_append(arr, values) == Some(ravel(arr) \o ravel(values))

\* len(v) raises TypeError for None
len_raises(v) == v = None

\* the second test catching only an element array longer than the side array
lengths_differ_elem_longer(elem_ids, side_ids) == Len(elem_ids) > Len(side_ids)

\* len(elem_ids) != len(side_ids) (add_sideset's second test)
lengths_differ(elem_ids, side_ids) == Len(elem_ids) # Len(side_ids)

\* the third test with >= for >: a name of the maximum length is refused
name_too_long_at_limit(ss_name) == Len(ss_name) >= MAX_NAME_LENGTH

\* len(ss_name) > self.ex._MAX_NAME_LENGTH (add_sideset's third test)
name_too_long(ss_name) == Len(ss_name) > MAX_NAME_LENGTH

\* list.insert(0, v) for list.append(v)
list_prepend(list, v) == <<v>> \o list

\* list.append(v) as used by add_sideset
list_append(list, v) == Append(list, v)

(***************************************************************************)
(* Arguments the calls are made with.                                      *)
(***************************************************************************)
Ids == {4, 7, 9}
NameOfLen(n) == [i \in 1..n |-> "x"]
Names == {NameOfLen(MAX_NAME_LENGTH), NameOfLen(MAX_NAME_LENGTH + 1)}
ElemArgs == {<<31, 30>>, <<32>>}
SideArgs == {<<6, 5>>}
\* the sides add_sides_to_sideset is given: other numbers than a create's, one
\* side, so that it comes with as many elements (<<32>>) or with more
AppendSideArgs == {<<8>>}
\* weights: omitted (None), present and empty, present with two values
DistFactArgs == {None, Some(<<>>), Some(<<15, 14>>)}

\* SSLedger.add_sideset(elem_ids, side_ids, ss_id, ss_name, dist_fact)
add_sideset(elem_ids, side_ids, ss_id, ss_name, dist_fact) ==
    /\ LET outcome ==
               IF id_in_ledger(ss_prop1, ss_id) THEN "DuplicateIdentifier"
               ELSE IF lengths_differ(elem_ids, side_ids) THEN "LengthMismatch"
               ELSE IF name_too_long(ss_name) THEN "NameTooLong"
               ELSE IF len_raises(dist_fact) THEN "TypeError"
               ELSE "ok"
           \* lines 54-59 run once the three checks have passed
           accepted == outcome \in {"TypeError", "ok"}
       IN  /\ ss_elem' = IF accepted THEN list_append(ss_elem, Some(elem_ids)) ELSE ss_elem
           /\ ss_sides' = IF accepted THEN list_append(ss_sides, Some(side_ids)) ELSE ss_sides
           /\ ss_prop1' = IF accepted THEN list_append(ss_prop1, ss_id) ELSE ss_prop1
           /\ ss_sizes' = IF accepted THEN list_append(ss_sizes, Len(elem_ids)) ELSE ss_sizes
           /\ ss_status' = IF accepted THEN list_append(ss_status, 1) ELSE ss_status
           /\ ss_names' = IF accepted THEN list_append(ss_names, ss_name) ELSE ss_names
           \* line 60 raises TypeError on len(None); lines 60-62 run otherwise
           /\ num_dist_fact' = IF outcome = "ok"
                               THEN list_append(num_dist_fact, Len(dist_fact[1]))
                               ELSE num_dist_fact
           /\ ss_dist_fact' = IF outcome = "ok"
                              THEN list_append(ss_dist_fact, dist_fact)
                              ELSE ss_dist_fact
           /\ num_ss' = IF outcome = "ok" THEN num_ss + 1 ELSE num_ss
           /\ created' = IF outcome = "ok" THEN Append(created, ss_id) ELSE created
           /\ last' = Call("add_sideset", elem_ids, side_ids, ss_id, ss_name,
                           dist_fact, outcome)
    /\ pre' = Snapshot
    /\ UNCHANGED <<ex, sink, reads, base_count, mode, nodesets>>

\* a remove that also lowers the set count of the store at once
remove_sideset_writes_through(ss_id) ==
    /\ LET ndx == find_sideset_num(ss_prop1, num_ss, ss_id)
       IN  IF ndx = -1
           THEN /\ last' = Call("remove_sideset", <<>>, <<>>, ss_id, <<>>, None, "NotFound")
                /\ UNCHANGED <<ex, num_ss, ss_prop1, ss_status, ss_sizes, ss_names,
                               num_dist_fact, ss_dist_fact, ss_elem, ss_sides,
                               created, base_count>>
           ELSE /\ ss_prop1' = pop(ss_prop1, ndx)
                /\ ss_status' = pop(ss_status, ndx)
                /\ ss_names' = pop(ss_names, ndx)
                /\ ss_elem' = pop(ss_elem, ndx)
                /\ ss_sizes' = pop(ss_sizes, ndx)
                /\ ss_sides' = pop(ss_sides, ndx)
                /\ num_dist_fact' = pop(num_dist_fact, ndx)
                /\ ss_dist_fact' = pop(ss_dist_fact, ndx)
                /\ num_ss' = num_ss - 1
                /\ ex' = [ex EXCEPT !.dimensions = Put(@, Name("num_side_sets"), num_ss - 1)]
                /\ created' = <<>>
                /\ base_count' = num_ss - 1
                /\ last' = Call("remove_sideset", <<>>, <<>>, ss_id, <<>>, None, "ok")
    /\ pre' = Snapshot
    /\ UNCHANGED <<sink, reads, mode, nodesets>>

\* SSLedger.remove_sideset(ss_id)
remove_sideset(ss_id) ==
    /\ LET ndx == find_sideset_num(ss_prop1, num_ss, ss_id)
       IN  IF ndx = -1
           THEN /\ last' = Call("remove_sideset", <<>>, <<>>, ss_id, <<>>, None, "NotFound")
                /\ UNCHANGED <<num_ss, ss_prop1, ss_status, ss_sizes, ss_names,
                               num_dist_fact, ss_dist_fact, ss_elem, ss_sides,
                               created, base_count>>
           ELSE /\ ss_prop1' = pop(ss_prop1, ndx)
                /\ ss_status' = pop(ss_status, ndx)
                /\ ss_names' = pop(ss_names, ndx)
                /\ ss_elem' = pop(ss_elem, ndx)
                /\ ss_sizes' = pop(ss_sizes, ndx)
                /\ ss_sides' = pop(ss_sides, ndx)
                /\ num_dist_fact' = pop(num_dist_fact, ndx)
                /\ ss_dist_fact' = pop(ss_dist_fact, ndx)
                /\ num_ss' = num_ss - 1
                /\ created' = <<>>
                /\ base_count' = num_ss - 1
                /\ last' = Call("remove_sideset", <<>>, <<>>, ss_id, <<>>, None, "ok")
    /\ pre' = Snapshot
    /\ UNCHANGED <<ex, sink, reads, mode, nodesets>>

\* self.ss_elem[ndx] is None: the set's arrays are still in the store only
is_unloaded(arr) == arr = None

\* SSLedger.add_sides_to_sideset(elem_ids, side_ids, dist_facts, ss_id)
add_sides_to_sideset(elem_ids, side_ids, dist_facts, ss_id) ==
    LET ndx == find_sideset_num(ss_prop1, num_ss, ss_id)
        \* lines 83-89: load the set from the store if it is not loaded yet
        needs_load == is_unloaded(ss_elem[ndx + 1])
        ss == get_side_set(ex, ss_id)
        df == get_side_set_df(ex, ss_id)
        got_ss == needs_load /\ ~ss.err
        got_df == got_ss /\ ~df.err
        loaded == ~needs_load \/ got_df
        elem1 == IF got_ss THEN Some(ss.elem) ELSE ss_elem[ndx + 1]
        sides1 == IF got_ss THEN Some(ss.side) ELSE ss_sides[ndx + 1]
        df1 == IF got_df THEN Some(df.df) ELSE ss_dist_fact[ndx + 1]
        reads1 == IF ~needs_load THEN <<>>
                  ELSE IF ss.err THEN ss.read
                  ELSE ss.read \o df.read
        \* lines 92-94 run once the set is loaded
        elem2 == IF loaded THEN np_append(elem1, Some(elem_ids)) ELSE elem1
        sides2 == IF loaded THEN np_append(sides1, Some(side_ids)) ELSE sides1
        df2 == IF loaded THEN np_append(df1, dist_facts) ELSE df1
        \* line 95, then line 96, which raises TypeError on len(None)
        size2 == IF loaded THEN ss_sizes[ndx + 1] + Len(elem_ids) ELSE ss_sizes[ndx + 1]
        ndf2 == IF loaded /\ ~len_raises(dist_facts)
                THEN num_dist_fact[ndx + 1] + Len(dist_facts[1])
                ELSE num_dist_fact[ndx + 1]
        outcome == IF ~loaded THEN "KeyError"
                   ELSE IF len_raises(dist_facts) THEN "TypeError"
                   ELSE "ok"
    IN  /\ IF ndx = -1
           THEN /\ last' = Call("add_sides_to_sideset", elem_ids, side_ids, ss_id, <<>>,
                                dist_facts, "NotFound")
                /\ UNCHANGED <<ss_sizes, num_dist_fact, ss_dist_fact, ss_elem,
                               ss_sides, reads>>
           ELSE /\ ss_elem' = [ss_elem EXCEPT ![ndx + 1] = elem2]
                /\ ss_sides' = [ss_sides EXCEPT ![ndx + 1] = sides2]
                /\ ss_dist_fact' = [ss_dist_fact EXCEPT ![ndx + 1] = df2]
                /\ ss_sizes' = [ss_sizes EXCEPT ![ndx + 1] = size2]
                /\ num_dist_fact' = [num_dist_fact EXCEPT ![ndx + 1] = ndf2]
                /\ reads' = reads \o reads1
                /\ last' = Call("add_sides_to_sideset", elem_ids, side_ids, ss_id, <<>>,
                                dist_facts, outcome)
        /\ pre' = Snapshot
        /\ UNCHANGED <<ex, sink, num_ss, ss_prop1, ss_status, ss_names, created,
                       base_count, mode, nodesets>>

(***************************************************************************)
(* SSLedger.write(data), as a function of the ledger record l, the store   *)
(* the ledger was built over and the dataset data to fill. A step's result *)
(* is [outcome, data, reads]: "ok" or the error raised, the dataset as the *)
(* step left it, the store variables it read.                              *)
(***************************************************************************)
\* "\0", the terminator write puts after a name
NUL == "NUL"

\* a suffix that is the position itself
ss_suffix_is_position(i) == i

\* str(i+1), the suffix of the dimensions and variables of the set at position i
ss_suffix(i) == i + 1

\* SSLedger.convert_string(s): 33 characters, those after s masked;
\* raises IndexError when s has more than 33
convert_string_raises(s) == Len(s) > MAX_NAME_LENGTH + 1
convert_string(s) == s \o [i \in 1..(MAX_NAME_LENGTH + 1 - Len(s)) |-> Masked]

\* what a character variable holds for the row written: "\0" is the fill value
\* of a character and reads back masked
stored_chars(row) == [j \in 1..Len(row) |-> IF row[j] = NUL THEN Masked ELSE row[j]]

\* what an int32 variable holds for the float v (numpy astype cuts the fraction)
int32_of_float(v) == v - (v % 2)

\* an array with a None entry cannot be converted to int32 (TypeError)
int32_raises(arr) == \E j \in 1..Len(arr) : arr[j] = NoneElem

\* lines 177-179: the two dimensions of every set
RECURSIVE write_dimensions(_, _, _)
write_dimensions(l, data, i) ==
    IF i >= l.num_ss THEN data
    ELSE write_dimensions(l,
            createDimension(
                createDimension(data, Suffixed("num_df_ss", ss_suffix(i)),
                                l.num_dist_fact[i + 1]),
                Suffixed("num_side_ss", ss_suffix(i)), l.ss_sizes[i + 1]),
            i + 1)

\* lines 192-193: the name rows, one per entry of ss_names
RECURSIVE write_names(_, _, _)
write_names(l, data, i) ==
    IF i >= Len(l.ss_names) THEN [outcome |-> "ok", data |-> data, reads |-> <<>>]
    ELSE IF convert_string_raises(l.ss_names[i + 1] \o <<NUL>>)
              \/ i >= Len(data.variables[Name("ss_names")])
    THEN [outcome |-> "IndexError", data |-> data, reads |-> <<>>]
    ELSE write_names(l,
            [data EXCEPT !.variables[Name("ss_names")][i + 1] =
                stored_chars(convert_string(l.ss_names[i + 1] \o <<NUL>>))],
            i + 1)

\* lines 197-215: the three variables of the set at position i
write_set(l, store, data, i) ==
    LET id == l.ss_prop1[i + 1]
        size_dim == Suffixed("num_side_ss", ss_suffix(i))
        df_dim == Suffixed("num_df_ss", ss_suffix(i))
        elem_var == Suffixed("elem_ss", ss_suffix(i))
        side_var == Suffixed("side_ss", ss_suffix(i))
        df_var == Suffixed("dist_fact_ss", ss_suffix(i))
        d0 == createVariable(
                createVariable(createVariable(data, elem_var, "int32", size_dim),
                               df_var, "int32", df_dim),
                side_var, "float64", size_dim)
        ss == get_side_set(store, id)
        df == get_side_set_df(store, id)
        elem_read == IF l.ss_elem[i + 1] = None THEN ss.read ELSE <<>>
        side_read == IF l.ss_sides[i + 1] = None THEN ss.read ELSE <<>>
        df_read == IF l.ss_dist_fact[i + 1] = None THEN df.read ELSE <<>>
        elem == IF l.ss_elem[i + 1] = None THEN ss.elem ELSE l.ss_elem[i + 1][1]
        sides == IF l.ss_sides[i + 1] = None THEN ss.side ELSE l.ss_sides[i + 1][1]
        weights == IF l.ss_dist_fact[i + 1] = None THEN df.df ELSE l.ss_dist_fact[i + 1][1]
        s1 == setitem(d0, elem_var, size_dim, elem)
        \* side_ss is a float64 variable: it holds the side numbers as they are
        s2 == setitem(s1.data, side_var, size_dim, sides)
        \* dist_fact_ss is an int32 variable
        s3 == setitem(s2.data, df_var, df_dim,
                      [j \in 1..Len(weights) |-> int32_of_float(weights[j])])
    IN  IF l.ss_elem[i + 1] = None /\ ss.err
        THEN [outcome |-> "KeyError", data |-> d0, reads |-> elem_read]
        ELSE IF s1.err
        THEN [outcome |-> "ValueError", data |-> d0, reads |-> elem_read]
        ELSE IF l.ss_sides[i + 1] = None /\ ss.err
        THEN [outcome |-> "KeyError", data |-> s1.data, reads |-> elem_read \o side_read]
        ELSE IF s2.err
        THEN [outcome |-> "ValueError", data |-> s1.data, reads |-> elem_read \o side_read]
        ELSE IF l.ss_dist_fact[i + 1] = None /\ df.err
        THEN [outcome |-> "KeyError", data |-> s2.data,
              reads |-> elem_read \o side_read \o df_read]
        ELSE IF int32_raises(weights)
        THEN [outcome |-> "TypeError", data |-> s2.data,
              reads |-> elem_read \o side_read \o df_read]
        ELSE IF s3.err
        THEN [outcome |-> "ValueError", data |-> s2.data,
              reads |-> elem_read \o side_read \o df_read]
        ELSE [outcome |-> "ok", data |-> s3.data,
              reads |-> elem_read \o side_read \o df_read]

\* lines 195-215: the sets in position order, up to the first that raises
RECURSIVE write_sets(_, _, _, _)
write_sets(l, store, acc, i) ==
    IF i >= l.num_ss \/ acc.outcome # "ok" THEN acc
    ELSE LET r == write_set(l, store, acc.data, i)
         IN  write_sets(l, store,
                        [outcome |-> r.outcome, data |-> r.data,
                         reads |-> acc.reads \o r.reads],
                        i + 1)

\* SSLedger.write(data), lines 169-215
write_result(l, store, data) ==
    LET d1 == write_dimensions(l,
                  createDimension(data, Name("num_side_sets"), l.num_ss), 0)
        d2 == createVariable(d1, Name("ss_status"), "int32", Name("num_side_sets"))
        s2 == setitem(d2, Name("ss_status"), Name("num_side_sets"), l.ss_status)
        d3 == createVariable(s2.data, Name("ss_prop1"), "int32", Name("num_side_sets"))
        s3 == setitem(d3, Name("ss_prop1"), Name("num_side_sets"), l.ss_prop1)
        n4 == write_names(l, createNames(s3.data), 0)
    IN  IF l.num_ss = 0 THEN [outcome |-> "ok", data |-> data, reads |-> <<>>]
        ELSE IF s2.err THEN [outcome |-> "ValueError", data |-> d2, reads |-> <<>>]
        ELSE IF s3.err THEN [outcome |-> "ValueError", data |-> d3, reads |-> <<>>]
        ELSE write_sets(l, store, n4, 0)

\* SSLedger.write(data) on the ledger
write(data) ==
    /\ LET r == write_result(Ledger, ex, data)
       IN  /\ sink' = r.data
           /\ reads' = reads \o r.reads
           /\ last' = Call("write", <<>>, <<>>, 0, <<>>, None, r.outcome)
    /\ pre' = Snapshot
    /\ UNCHANGED <<ex, num_ss, ss_prop1, ss_status, ss_sizes, ss_names, num_dist_fact,
                   ss_dist_fact, ss_elem, ss_sides, created, base_count, mode, nodesets>>

\* one more call of the session
Called ==
    /\ ncalls < MaxCalls
    /\ ncalls' = ncalls + 1

\* the constructor returned a ledger to call operations on
HasLedger == ~init_raises(ex)

Next ==
    \/ \E elem_ids \in ElemArgs, side_ids \in SideArgs, ss_id \in Ids,
          ss_name \in Names, dist_fact \in DistFactArgs :
            HasLedger /\ Called
            /\ add_sideset(elem_ids, side_ids, ss_id, ss_name, dist_fact)
    \/ \E ss_id \in Ids : HasLedger /\ Called /\ remove_sideset(ss_id)
    \/ \E elem_ids \in ElemArgs, side_ids \in AppendSideArgs, dist_facts \in DistFactArgs,
          ss_id \in Ids :
            HasLedger /\ Called
            /\ add_sides_to_sideset(elem_ids, side_ids, dist_facts, ss_id)
    \/ \E data \in {FreshData} : HasLedger /\ Called /\ write(data)

Spec == Init /\ [][Next]_vars

(***************************************************************************)
(* The database handle: Exodus.__init__ and the node-set entry points.     *)
(***************************************************************************)
FORMAT_MAP == {"EX_NETCDF4", "EX_LARGE_MODEL", "EX_NORMAL_MODEL", "EX_64BIT_DATA"}

\* path.split(".")[-1] of a path given as [name, ext, exists]
extension(path) == path.ext

\* nc.Dataset(path, mode, clobber): "ok" or the error the open raises.
\* Reading and appending need the file; creating refuses to replace a file
\* unless clobber is set.
Dataset(path, m, clobber) ==
    IF m \in {"r", "a"}
    THEN IF path.exists THEN "ok" ELSE "FileNotFoundError"
    ELSE IF path.exists /\ ~clobber THEN "OSError" ELSE "ok"

\* Exodus.__init__(path, mode, clobber, format, word_size): "ok" or the error
\* raised, the checks in the order of the source
Exodus_init(path, m, clobber, format, word_size) ==
    IF m \notin {"r", "w", "a"} THEN "ValueError"
    ELSE IF format \notin FORMAT_MAP THEN "ValueError"
    ELSE IF word_size \notin {4, 8} THEN "ValueError"
    ELSE IF extension(path) \notin {"e", "ex2"} THEN "ValueError"
    ELSE Dataset(path, m, clobber)

\* the guard of add_nodeset, remove_nodeset and merge_nodeset
mode_guard_raises(m) == m # "w" \/ m # "a"

(***************************************************************************)
(* The node-set ledger behind self.ledger (module ledger, imported by      *)
(* src/exodus.py): its operations as the node-set contract describes them. *)
(* A result is [outcome, sets].                                            *)
(***************************************************************************)
ns_ids(sets) == {sets[i].id : i \in 1..Len(sets)}
ns_nodes(sets, id) == (CHOOSE i \in 1..Len(sets) : sets[i].id = id)
ns_without(sets, ids) == SelectSeq(sets, LAMBDA s : s.id \notin ids)

\* s without the repetitions of its entries, first occurrences kept
RECURSIVE collapse(_)
collapse(s) ==
    IF s = <<>> THEN <<>>
    ELSE LET front == collapse(SubSeq(s, 1, Len(s) - 1))
         IN  IF s[Len(s)] \in Range(front) THEN front ELSE Append(front, s[Len(s)])

\* the node sets a ledger is seeded with when the file is opened
seeded_nodesets(path, m) ==
    IF m = "a" /\ path.exists
    THEN <<[id |-> 1, nodes |-> <<1, 2, 3>>], [id |-> 2, nodes |-> <<3, 4, 5>>]>>
    ELSE <<>>

ledger_add_nodeset(sets, node_ids, nodeset_id) ==
    IF nodeset_id \in ns_ids(sets)
    THEN [outcome |-> "DuplicateIdentifier", sets |-> sets]
    ELSE [outcome |-> "ok", sets |-> Append(sets, [id |-> nodeset_id, nodes |-> node_ids])]

ledger_remove_nodeset(sets, nodeset_id) ==
    IF nodeset_id \notin ns_ids(sets)
    THEN [outcome |-> "NotFound", sets |-> sets]
    ELSE [outcome |-> "ok", sets |-> ns_without(sets, {nodeset_id})]

ledger_merge_nodesets(sets, new_id, ns1, ns2, delete_originals) ==
    IF ns1 \notin ns_ids(sets) \/ ns2 \notin ns_ids(sets)
    THEN [outcome |-> "NotFound", sets |-> sets]
    ELSE IF new_id \in ns_ids(sets)
    THEN [outcome |-> "DuplicateIdentifier", sets |-> sets]
    ELSE LET merged == [id |-> new_id,
                        nodes |-> collapse(sets[ns_nodes(sets, ns1)].nodes
                                           \o sets[ns_nodes(sets, ns2)].nodes)]
             kept == IF delete_originals THEN ns_without(sets, {ns1, ns2}) ELSE sets
         IN  [outcome |-> "ok", sets |-> Append(kept, merged)]

(***************************************************************************)
(* Arguments the handle is opened and called with.                         *)
(***************************************************************************)
Paths ==
    {[name |-> "some fake directory/notafile.xxx", ext |-> "xxx", exists |-> FALSE],
     [name |-> "sample-files/disk_out_ref.ex2", ext |-> "ex2", exists |-> TRUE],
     [name |-> "sample-files/new.e", ext |-> "e", exists |-> FALSE]}
Modes == {"r", "w", "a", "z"}
Formats == {"EX_NETCDF4", "NOTAFORMAT"}
WordSizes == {4, 7, 8}
NodeArgs == {<<1, 2, 2, 3>>}
NodesetIds == {1, 2, 200}

\* the fields of the side-set ledger, which the handle's calls here leave alone
ss_vars ==
    <<ex, num_ss, ss_prop1, ss_status, ss_sizes, ss_names, num_dist_fact, ss_dist_fact,
      ss_elem, ss_sides, sink, reads, created, base_count>>

\* Exodus(path, mode, shared=False, clobber, format, word_size)
open(path, m, clobber, format, word_size) ==
    /\ mode = "closed"
    /\ LET outcome == Exodus_init(path, m, clobber, format, word_size)
       IN  /\ mode' = IF outcome = "ok" THEN m ELSE mode
           /\ nodesets' = IF outcome = "ok" THEN seeded_nodesets(path, m) ELSE nodesets
           /\ last' = [op |-> "Exodus", path |-> path, mode |-> m, clobber |-> clobber,
                       format |-> format, word_size |-> word_size, outcome |-> outcome]
    /\ pre' = Snapshot
    /\ UNCHANGED ss_vars

\* the record of a call of an entry point
EntryCall(op, node_ids, ids, outcome) ==
    [op |-> op, node_ids |-> node_ids, ids |-> ids, mode |-> mode, outcome |-> outcome]

\* Exodus.add_nodeset(node_ids, nodeset_id)
add_nodeset(node_ids, nodeset_id) ==
    /\ mode # "closed"
    /\ LET r == IF mode_guard_raises(mode)
                THEN [outcome |-> "PermissionError", sets |-> nodesets]
                ELSE ledger_add_nodeset(nodesets, node_ids, nodeset_id)
       IN  /\ nodesets' = r.sets
           /\ last' = EntryCall("add_nodeset", node_ids, <<nodeset_id>>, r.outcome)
    /\ pre' = Snapshot
    /\ UNCHANGED <<mode, ss_vars>>

\* Exodus.remove_nodeset(nodeset_id)
remove_nodeset(nodeset_id) ==
    /\ mode # "closed"
    /\ LET r == IF mode_guard_raises(mode)
                THEN [outcome |-> "PermissionError", sets |-> nodesets]
                ELSE ledger_remove_nodeset(nodesets, nodeset_id)
       IN  /\ nodesets' = r.sets
           /\ last' = EntryCall("remove_nodeset", <<>>, <<nodeset_id>>, r.outcome)
    /\ pre' = Snapshot
    /\ UNCHANGED <<mode, ss_vars>>

\* Exodus.merge_nodeset(new_id, ns1, ns2); it hands the ledger no
\* delete_originals
merge_nodeset(new_id, ns1, ns2) ==
    /\ mode # "closed"
    /\ LET r == IF mode_guard_raises(mode)
                THEN [outcome |-> "PermissionError", sets |-> nodesets]
                ELSE ledger_merge_nodesets(nodesets, new_id, ns1, ns2, FALSE)
       IN  /\ nodesets' = r.sets
           /\ last' = EntryCall("merge_nodeset", <<>>, <<new_id, ns1, ns2>>, r.outcome)
    /\ pre' = Snapshot
    /\ UNCHANGED <<mode, ss_vars>>

\* no handle is open; the side-set fields are those of a ledger over a file
\* without side sets
HandleInit ==
    /\ ex = EmptyFile
    /\ LET l == SSLedger_init(ex)
       IN  /\ num_ss = l.num_ss
           /\ ss_prop1 = l.ss_prop1
           /\ ss_status = l.ss_status
           /\ ss_sizes = l.ss_sizes
           /\ ss_names = l.ss_names
           /\ num_dist_fact = l.num_dist_fact
           /\ ss_dist_fact = l.ss_dist_fact
           /\ ss_elem = l.ss_elem
           /\ ss_sides = l.ss_sides
           /\ base_count = l.num_ss
    /\ sink = FreshData
    /\ reads = <<>>
    /\ mode = "closed"
    /\ nodesets = <<>>
    /\ last = NoCall
    /\ pre = Snapshot
    /\ created = <<>>
    /\ ncalls = 0

HandleNext ==
    \/ \E path \in Paths, m \in Modes, clobber \in BOOLEAN, format \in Formats,
          word_size \in WordSizes :
            Called /\ open(path, m, clobber, format, word_size)
    \/ \E node_ids \in NodeArgs, nodeset_id \in NodesetIds :
            Called /\ add_nodeset(node_ids, nodeset_id)
    \/ \E nodeset_id \in NodesetIds : Called /\ remove_nodeset(nodeset_id)
    \/ \E new_id \in NodesetIds, ns1 \in NodesetIds, ns2 \in NodesetIds :
            Called /\ merge_nodeset(new_id, ns1, ns2)

HandleSpec == HandleInit /\ [][HandleNext]_vars

(***************************************************************************)
(* NodeSetSelector.__init__ (src/selector.py), the part that takes an      *)
(* explicit list of variable numbers. tab is the node set's row of the     *)
(* truth table, one entry per node-set variable; tab[i + 1] reads tab[i].  *)
(***************************************************************************)
\* list(set(variables)) followed by sort(): the distinct entries, ascending
RECURSIVE sorted_set(_)
sorted_set(S) ==
    IF S = {} THEN <<>>
    ELSE LET m == CHOOSE x \in S : \A y \in S : x <= y
         IN  <<m>> \o sorted_set(S \ {m})

\* lines 155-157: for idx in variables, in the order given, tab[idx] is read
\* with the number as given; the error of the first number that raises
RECURSIVE truth_table_check(_, _, _)
truth_table_check(tab, variables, k) ==
    IF k > Len(variables) THEN "ok"
    ELSE IF variables[k] >= Len(tab) THEN "IndexError"
    ELSE IF ~tab[variables[k] + 1] THEN "ValueError"
    ELSE truth_table_check(tab, variables, k + 1)

\* the node-set readers class Exodus defines
ExodusNodeSetMethods == {"get_node_set", "get_node_set_df", "get_node_set_params"}

\* lines 146-157: [outcome, variables], the selection stored when no error
\* is raised. Past the range test, line 152 calls exodus.get_node_set_number
\* (and line 153 exodus.get_node_set_truth_table), names class Exodus does
\* not define: AttributeError is raised before the row tab is obtained.
NodeSetSelector_variables(tab, variables) ==
    LET sorted == sorted_set(Range(variables))
        num_node_set_var == Len(tab)
        \* line 148 reads the first and the last entry of the sorted list
        range_error == \/ sorted = <<>>
                       \/ sorted[1] < 1
                       \/ sorted[Len(sorted)] > num_node_set_var
        checked == truth_table_check(tab, variables, 1)
    IN  IF range_error THEN [outcome |-> "IndexError", variables |-> <<>>]
        ELSE IF "get_node_set_number" \notin ExodusNodeSetMethods
        THEN [outcome |-> "AttributeError", variables |-> <<>>]
        ELSE IF checked # "ok" THEN [outcome |-> checked, variables |-> <<>>]
        ELSE [outcome |-> "ok", variables |-> [i \in 1..Len(sorted) |-> sorted[i] - 1]]

\* the number of node-set variables of the database, the variable numbers
\* tried and the longest list of them
NumNodeSetVar == 3
VariableNumbers == 0..(NumNodeSetVar + 1)
MaxVariables == 2

TruthTableRows == [1..NumNodeSetVar -> BOOLEAN]
VariableLists ==
    UNION {[1..n -> VariableNumbers] : n \in 0..MaxVariables}

\* NodeSetSelector(exodus, obj_id, variables=variables) on a node set whose
\* truth table row is tab
select(tab, variables) ==
    /\ LET r == NodeSetSelector_variables(tab, variables)
       IN  last' = [op |-> "NodeSetSelector", tab |-> tab, variables |-> variables,
                    outcome |-> r.outcome, selection |-> r.variables]
    /\ pre' = Snapshot
    /\ UNCHANGED <<mode, nodesets, ss_vars>>

SelectorNext ==
    \E tab \in TruthTableRows, variables \in VariableLists :
        Called /\ select(tab, variables)

SelectorSpec == HandleInit /\ [][SelectorNext]_vars

(***************************************************************************)
(* Properties                                                              *)
(***************************************************************************)
\* the eight per-set lists of a ledger record
ListsOf(l) ==
    <<l.ss_prop1, l.ss_status, l.ss_names, l.ss_sizes, l.ss_elem, l.ss_sides,
      l.num_dist_fact, l.ss_dist_fact>>

\* the last call was add_sideset with an id the ledger did not hold
FreshCreate ==
    /\ last.op = "add_sideset"
    /\ last.ss_id \notin Range(pre.ledger.ss_prop1)

\* C1: add_sideset called with an external id that is already in the ledger
\* fails with the duplicate-identifier error, and num_ss and all eight per-set
\* lists are the same after the call as before it.
C1_DuplicateCreateRejected ==
    (last.op = "add_sideset" /\ last.ss_id \in Range(pre.ledger.ss_prop1))
        => (last.outcome = "DuplicateIdentifier" /\ Ledger = pre.ledger)

\* a create with the id of a set already in a non-empty ledger was rejected
C1_Witness ==
    /\ last.op = "add_sideset"
    /\ pre.ledger.num_ss >= 1
    /\ find_sideset_num(pre.ledger.ss_prop1, pre.ledger.num_ss, last.ss_id) >= 0
    /\ last.outcome = "DuplicateIdentifier"

\* C2: from a ledger seeded with pairwise-distinct ids, after any calls of
\* add_sideset, remove_sideset and add_sides_to_sideset, failed ones included,
\* ss_prop1 holds no value twice.
C2_UniqueExternalIds ==
    \A i, j \in 1..Len(ss_prop1) : i # j => ss_prop1[i] # ss_prop1[j]

\* a create was accepted into a ledger that already held a set, after an
\* earlier call
C2_Witness ==
    /\ last.op = "add_sideset"
    /\ last.outcome = "ok"
    /\ Len(ss_prop1) >= 2
    /\ ncalls >= 2

\* C3: after successful creates with distinct ids, lookup of the k-th created
\* id returns the position (initial count + k - 1); write names the set's
\* dimensions and variables with that position + 1.
C3_LookupFollowsInsertionOrder ==
    \A k \in 1..Len(created) :
        find_sideset_num(ss_prop1, num_ss, created[k]) = base_count + k - 1

\* C4: after a successful remove of the set at position p, lookup of the id
\* fails, num_ss is one less, and each of the eight per-set lists is the list
\* before the call without its entry at position p: entries before p stay,
\* entries after p move down by one, unchanged.
C4_RemoveShiftsLaterSets ==
    (last.op = "remove_sideset" /\ last.outcome = "ok")
        => LET p == find_sideset_num(pre.ledger.ss_prop1, pre.ledger.num_ss, last.ss_id)
               old == ListsOf(pre.ledger)
               new == ListsOf(Ledger)
           IN  /\ p >= 0
               /\ find_sideset_num(ss_prop1, num_ss, last.ss_id) = -1
               /\ num_ss = pre.ledger.num_ss - 1
               /\ \A f \in 1..Len(old) :
                    /\ Len(new[f]) = Len(old[f]) - 1
                    /\ \A i \in 0..(Len(old[f]) - 1) :
                         /\ i < p => new[f][i + 1] = old[f][i + 1]
                         /\ i > p => new[f][i] = old[f][i + 1]

\* the first of two sets was removed, so that a later set moved down
C4_Witness ==
    /\ last.op = "remove_sideset"
    /\ last.outcome = "ok"
    /\ pre.ledger.num_ss >= 2
    /\ find_sideset_num(pre.ledger.ss_prop1, pre.ledger.num_ss, last.ss_id) = 0

\* C5: a successful create appends one entry to each of the eight per-set lists
\* (the entries before it unchanged): elem, side and weight arrays equal to
\* the arguments and held in memory, the id, status 1, the name, the size
\* len(elem_ids) and the weight count; num_ss grows by one; nothing is read
\* from the backing store and the store is unchanged.
C5_CreateAppendsMaterializedSet ==
    (last.op = "add_sideset" /\ last.outcome = "ok")
        => LET o == pre.ledger
           IN  /\ last.dist_fact # None
               /\ ss_elem = Append(o.ss_elem, Some(last.elem_ids))
               /\ ss_sides = Append(o.ss_sides, Some(last.side_ids))
               /\ ss_dist_fact = Append(o.ss_dist_fact, last.dist_fact)
               /\ ss_prop1 = Append(o.ss_prop1, last.ss_id)
               /\ ss_status = Append(o.ss_status, 1)
               /\ ss_names = Append(o.ss_names, last.ss_name)
               /\ ss_sizes = Append(o.ss_sizes, Len(last.elem_ids))
               /\ num_dist_fact = Append(o.num_dist_fact, Len(last.dist_fact[1]))
               /\ num_ss = o.num_ss + 1
               /\ reads = pre.reads
               /\ ex = pre.ex

\* a set with members was created in a ledger that already held a set
C5_Witness ==
    /\ last.op = "add_sideset"
    /\ last.outcome = "ok"
    /\ pre.ledger.num_ss >= 1
    /\ Len(last.elem_ids) > 0

\* C6: create with a fresh id, element and side arrays of equal length, a name
\* within the bound and a weight sequence whose length differs from the number
\* of members fails with the length-mismatch error and adds no set.
C6_WeightLengthMismatchRejected ==
    (/\ FreshCreate
     /\ Len(last.elem_ids) = Len(last.side_ids)
     /\ Len(last.ss_name) <= MAX_NAME_LENGTH
     /\ last.dist_fact # None
     /\ Len(ravel(last.dist_fact)) # Len(last.elem_ids))
        => (last.outcome = "LengthMismatch" /\ Ledger = pre.ledger)

\* C7: create with a fresh id, element and side arrays of equal length, a name
\* within the bound and the weights omitted (None) succeeds: the ledger gains
\* one set and records its weights as absent.
C7_OmittedWeightsAccepted ==
    (/\ FreshCreate
     /\ Len(last.elem_ids) = Len(last.side_ids)
     /\ Len(last.ss_name) <= MAX_NAME_LENGTH
     /\ last.dist_fact = None)
        => /\ last.outcome = "ok"
           /\ num_ss = pre.ledger.num_ss + 1
           /\ ss_prop1 = Append(pre.ledger.ss_prop1, last.ss_id)
           /\ ss_dist_fact = Append(pre.ledger.ss_dist_fact, None)

\* C8 as stated: create with element and side arrays of different lengths
\* fails with the length-mismatch error and leaves the ledger unchanged,
\* whatever the id.
C8_AsClaimed ==
    (last.op = "add_sideset" /\ Len(last.elem_ids) # Len(last.side_ids))
        => (last.outcome = "LengthMismatch" /\ Ledger = pre.ledger)

\* C8, amended: create with an id that is not in the ledger and element and
\* side arrays of different lengths fails with the length-mismatch error and
\* leaves num_ss and all per-set lists unchanged (with an id that is in the
\* ledger the duplicate-identifier error is raised first).
C8_SideLengthMismatchRejected ==
    (FreshCreate /\ Len(last.elem_ids) # Len(last.side_ids))
        => (last.outcome = "LengthMismatch" /\ Ledger = pre.ledger)

\* a create with a fresh id and arrays of different lengths was rejected by a
\* ledger holding a set
C8_Witness ==
    /\ FreshCreate
    /\ Len(last.elem_ids) # Len(last.side_ids)
    /\ last.outcome = "LengthMismatch"
    /\ pre.ledger.num_ss >= 1

\* C9 as stated: create with a name longer than the maximum fails with the
\* name-too-long error and leaves the ledger unchanged, whatever the other
\* arguments; a name of exactly the maximum length passes and is stored whole.
C9_AsClaimed ==
    /\ (last.op = "add_sideset" /\ Len(last.ss_name) > MAX_NAME_LENGTH)
            => (last.outcome = "NameTooLong" /\ Ledger = pre.ledger)
    /\ (/\ FreshCreate
        /\ Len(last.elem_ids) = Len(last.side_ids)
        /\ Len(last.ss_name) = MAX_NAME_LENGTH)
            => /\ last.outcome # "NameTooLong"
               /\ ss_names = Append(pre.ledger.ss_names, last.ss_name)

\* C9, amended: create with a fresh id, element and side arrays of equal
\* length and a name longer than the maximum fails with the name-too-long
\* error and leaves the ledger unchanged (the duplicate and array-length
\* tests come first); with a name of exactly the maximum length the same call
\* is not refused for its name and the name is stored unclipped.
C9_NameBound ==
    /\ (/\ FreshCreate
        /\ Len(last.elem_ids) = Len(last.side_ids)
        /\ Len(last.ss_name) > MAX_NAME_LENGTH)
            => (last.outcome = "NameTooLong" /\ Ledger = pre.ledger)
    /\ (/\ FreshCreate
        /\ Len(last.elem_ids) = Len(last.side_ids)
        /\ Len(last.ss_name) = MAX_NAME_LENGTH)
            => /\ last.outcome # "NameTooLong"
               /\ ss_names = Append(pre.ledger.ss_names, last.ss_name)

\* a set whose name has exactly the maximum length was created
C9_Witness ==
    /\ FreshCreate
    /\ Len(last.ss_name) = MAX_NAME_LENGTH
    /\ last.outcome = "ok"
    /\ ss_names[Len(ss_names)] = last.ss_name

\* the store's row of an external id, and its member arrays
StoreRowOf(data, id) ==
    CHOOSE i \in 1..Len(data.variables[Name("ss_prop1")]) :
        data.variables[Name("ss_prop1")][i] = id
StoredElem(data, id) == data.variables[Suffixed("elem_ss", StoreRowOf(data, id))]
StoredSides(data, id) == data.variables[Suffixed("side_ss", StoreRowOf(data, id))]

\* C10: a store's side sets are in a ledger to be appended to, and a
\* successful add_sides_to_sideset leaves the set's element and side
\* arrays equal to the prior arrays followed by the new entries in the given
\* order, the prior arrays being those in memory or, for a seeded set not yet
\* loaded, the store's arrays of that external id; no call of
\* add_sides_to_sideset changes the member arrays of another set.
C10_AppendIsAdditive ==
    /\ num_side_sets(ex) > 0 => (HasLedger /\ Len(ss_elem) = num_ss)
    /\ (last.op = "add_sides_to_sideset" /\ last.outcome # "NotFound")
        => LET o == pre.ledger
               n == find_sideset_num(o.ss_prop1, o.num_ss, last.ss_id) + 1
               prior_elem == IF o.ss_elem[n] = None
                             THEN StoredElem(pre.ex, last.ss_id)
                             ELSE o.ss_elem[n][1]
               prior_sides == IF o.ss_sides[n] = None
                              THEN StoredSides(pre.ex, last.ss_id)
                              ELSE o.ss_sides[n][1]
           IN  /\ Len(ss_elem) = Len(o.ss_elem)
               /\ Len(ss_sides) = Len(o.ss_sides)
               /\ \A j \in 1..Len(ss_elem) :
                    j # n => (ss_elem[j] = o.ss_elem[j] /\ ss_sides[j] = o.ss_sides[j])
               /\ last.outcome = "ok" =>
                    /\ ss_elem[n] = Some(prior_elem \o last.elem_ids)
                    /\ ss_sides[n] = Some(prior_sides \o last.side_ids)

\* the last call named a set the lookup finds
TargetFound ==
    find_sideset_num(pre.ledger.ss_prop1, pre.ledger.num_ss, last.ss_id) # -1

\* C11: add_sides_to_sideset called with new weights whose number differs from
\* the number of new members fails with the length-mismatch error and leaves
\* the target set as it was.
C11_AppendWeightMismatchRejected ==
    (/\ last.op = "add_sides_to_sideset"
     /\ TargetFound
     /\ last.dist_fact # None
     /\ Len(last.dist_fact[1]) # Len(last.elem_ids))
        => (last.outcome = "LengthMismatch" /\ Ledger = pre.ledger)

\* C12: every set of the ledger whose weights are in memory has as many
\* weights as it has members.
C12_WeightsMatchMembers ==
    \A i \in 1..(IF HasLedger THEN num_ss ELSE 0) :
        (/\ ss_dist_fact[i] # None
         /\ Len(ss_dist_fact[i][1]) > 0
         /\ ss_elem[i] # None)
            => Len(ss_dist_fact[i][1]) = Len(ss_elem[i][1])

\* C13: remove_sideset and add_sides_to_sideset called with an id that is not
\* in the ledger fail with the not-found error; the count, every per-set list
\* and every set's loaded arrays are as before, and the store was not read.
C13_UnknownIdRejected ==
    (/\ last.op \in {"remove_sideset", "add_sides_to_sideset"}
     /\ last.ss_id \notin Range(pre.ledger.ss_prop1))
        => (/\ last.outcome = "NotFound"
            /\ Ledger = pre.ledger
            /\ reads = pre.reads)

\* members were offered to an id that a ledger holding a set does not have
C13_Witness ==
    /\ last.op = "add_sides_to_sideset"
    /\ last.ss_id \notin Range(pre.ledger.ss_prop1)
    /\ last.outcome = "NotFound"
    /\ pre.ledger.num_ss >= 1
    /\ pre.ledger.ss_elem[pre.ledger.num_ss] # None
    /\ Len(last.elem_ids) > 0

\* the store's distribution factors of the set with that id
StoredWeights(data, id) == data.variables[Suffixed("dist_fact_ss", StoreRowOf(data, id))]

\* the variable named name of the written dataset is the array arr
Written(name, arr) ==
    /\ name \in DOMAIN sink.variables
    /\ sink.variables[name] = arr

\* SSLedger(ex) returned a ledger for the store, if the store has side sets
SeededLedgerExists == num_side_sets(ex) > 0 => HasLedger

\* C14: over a store with side sets there is a ledger to write, and a write
\* that is the first call on it and returns normally leaves in the dataset,
\* for every set, element, side and weight arrays equal to the store's arrays
\* of that set, and an id table equal to the store's.
C14_UntouchedLedgerWritesStoreArrays ==
    /\ SeededLedgerExists
    /\ (last.op = "write" /\ last.outcome = "ok" /\ ncalls = 1 /\ num_ss > 0)
        => /\ Written(Name("ss_prop1"), ex.variables[Name("ss_prop1")])
           /\ \A i \in 1..num_ss :
                /\ Written(Suffixed("elem_ss", i), StoredElem(ex, ss_prop1[i]))
                /\ Written(Suffixed("side_ss", i), StoredSides(ex, ss_prop1[i]))
                /\ Written(Suffixed("dist_fact_ss", i), StoredWeights(ex, ss_prop1[i]))

\* the element and side arrays of the set at list position n (1-based) of the
\* ledger: those in memory, else the store's arrays of the set's id
ElemOf(n) == IF ss_elem[n] = None THEN StoredElem(ex, ss_prop1[n]) ELSE ss_elem[n][1]
SidesOf(n) == IF ss_sides[n] = None THEN StoredSides(ex, ss_prop1[n]) ELSE ss_sides[n][1]

\* C15: a write that returns normally has written the set at position i of
\* the ledger to the variables with suffix i+1, and row i of the status, id and
\* name tables is that set's; the dataset has member variables for the
\* positions of the ledger only; no write changes the ledger.
C15_WriteFollowsLedgerOrder ==
    last.op = "write"
        => /\ Ledger = pre.ledger
           /\ (last.outcome = "ok" /\ num_ss > 0) =>
                /\ \A i \in 0..(num_ss - 1) :
                     /\ Written(Suffixed("elem_ss", i + 1), ElemOf(i + 1))
                     /\ Written(Suffixed("side_ss", i + 1), SidesOf(i + 1))
                     /\ Suffixed("dist_fact_ss", i + 1) \in DOMAIN sink.variables
                     /\ sink.variables[Name("ss_prop1")][i + 1] = ss_prop1[i + 1]
                     /\ sink.variables[Name("ss_status")][i + 1] = ss_status[i + 1]
                     /\ lineparse(sink.variables[Name("ss_names")][i + 1]) = ss_names[i + 1]
                /\ Len(sink.variables[Name("ss_prop1")]) = num_ss
                /\ \A v \in DOMAIN sink.variables :
                     v[1] \in {"elem_ss", "side_ss", "dist_fact_ss"} => v[2] \in 1..num_ss

\* a write returned normally for a ledger of two sets, the set with the
\* greater id first, after members were appended to one of them
C15_Witness ==
    /\ last.op = "write"
    /\ last.outcome = "ok"
    /\ num_ss = 2
    /\ ss_prop1[1] > ss_prop1[2]
    /\ \E i \in 1..num_ss : Len(ss_elem[i][1]) # Len(ss_elem[3 - i][1])

\* C16: add_sideset, remove_sideset and add_sides_to_sideset leave every
\* dimension and variable of the store and of the written dataset as they were.
C16_MutationsTouchOnlyTheLedger ==
    last.op \in {"add_sideset", "remove_sideset", "add_sides_to_sideset"}
        => (ex = pre.ex /\ sink = pre.sink)

\* a set was removed from the ledger after a write had filled a dataset with it
C16_Witness ==
    /\ last.op = "remove_sideset"
    /\ last.outcome = "ok"
    /\ sink # FreshData
    /\ num_side_sets(sink) > num_ss

\* C17: Exodus.merge_nodeset on a handle opened in 'w' or 'a', with both
\* source ids in the ledger and new_id not in it, adds the set new_id whose
\* nodes are those of the two sources without repetition; with a source id
\* absent it fails with not-found, with new_id present with
\* duplicate-identifier.
C17_MergeAddsUnion ==
    (last.op = "merge_nodeset" /\ last.mode \in {"w", "a"})
        => LET new_id == last.ids[1]
               ns1 == last.ids[2]
               ns2 == last.ids[3]
               before == pre.nodesets
           IN  IF ns1 \notin ns_ids(before) \/ ns2 \notin ns_ids(before)
               THEN last.outcome = "NotFound"
               ELSE IF new_id \in ns_ids(before)
               THEN last.outcome = "DuplicateIdentifier"
               ELSE /\ last.outcome = "ok"
                    /\ new_id \in ns_ids(nodesets)
                    /\ Range(nodesets[ns_nodes(nodesets, new_id)].nodes)
                         = Range(before[ns_nodes(before, ns1)].nodes)
                             \cup Range(before[ns_nodes(before, ns2)].nodes)
                    /\ \A i, j \in 1..Len(nodesets[ns_nodes(nodesets, new_id)].nodes) :
                         i # j => nodesets[ns_nodes(nodesets, new_id)].nodes[i]
                                    # nodesets[ns_nodes(nodesets, new_id)].nodes[j]

\* C18: add_nodeset, remove_nodeset and merge_nodeset raise PermissionError
\* exactly when the handle was opened in a mode other than 'w' and 'a'.
C18_PermissionErrorOnlyWhenReadOnly ==
    last.op \in {"add_nodeset", "remove_nodeset", "merge_nodeset"}
        => (last.outcome = "PermissionError" <=> last.mode \notin {"w", "a"})

\* C19: Exodus(...) raises ValueError for a mode outside r, w, a, for an
\* unknown format and for a word size other than 4 and 8, and
\* FileNotFoundError for a path that does not exist opened in mode r, the
\* other arguments being good ones in each case.
C19_InitExceptionsAsTested ==
    last.op = "Exodus"
        => LET good_mode == last.mode \in {"r", "w", "a"}
               good_format == last.format \in FORMAT_MAP
               good_word_size == last.word_size \in {4, 8}
           IN  /\ ~good_mode => last.outcome = "ValueError"
               /\ (good_mode /\ ~good_format) => last.outcome = "ValueError"
               /\ (good_mode /\ good_format /\ ~good_word_size)
                    => last.outcome = "ValueError"
               /\ (last.mode = "r" /\ good_format /\ good_word_size /\ ~last.path.exists)
                    => last.outcome = "FileNotFoundError"

\* C20: every set of the ledger whose arrays are in memory has element and
\* side arrays of one length, the length recorded in ss_sizes.
C20_ParallelArraysInLockstep ==
    \A i \in 1..(IF HasLedger THEN num_ss ELSE 0) :
        ss_elem[i] # None
            => (/\ ss_sides[i] # None
                /\ Len(ss_elem[i][1]) = Len(ss_sides[i][1])
                /\ Len(ss_elem[i][1]) = ss_sizes[i])

\* the list position (1-based) the last call's id had when the call started
TargetPos ==
    find_sideset_num(pre.ledger.ss_prop1, pre.ledger.num_ss, last.ss_id) + 1

\* the store variables holding the arrays of the set with that id
StoreArraysOf(data, id) ==
    {Suffixed("elem_ss", lookup_id(data, id)), Suffixed("side_ss", lookup_id(data, id)),
     Suffixed("dist_fact_ss", lookup_id(data, id))}

\* C21: over a store with side sets there is a ledger holding them not yet
\* loaded; add_sides_to_sideset reads the store only for a target whose
\* arrays were not in memory when the call started, reads only the arrays of
\* the target's id, and leaves the target's arrays in memory, so that the
\* next call on the set reads nothing; a set created in memory is never read.
C21_LoadedAtMostOnce ==
    /\ SeededLedgerExists
    /\ (last.op = "add_sides_to_sideset" /\ TargetFound)
        => /\ pre.ledger.ss_elem[TargetPos] # None => reads = pre.reads
           /\ pre.ledger.ss_elem[TargetPos] = None =>
                /\ ss_elem[TargetPos] # None
                /\ Len(reads) > Len(pre.reads)
                /\ SubSeq(reads, 1, Len(pre.reads)) = pre.reads
                /\ \A k \in (Len(pre.reads) + 1)..Len(reads) :
                     reads[k] \in StoreArraysOf(ex, last.ss_id)
           /\ last.ss_id \in Range(created) => reads = pre.reads

\* C22: a seeded set whose store has no weights for it is in the ledger to
\* be appended to, and an add_sides_to_sideset whose load of the target fails
\* on a read of the store (KeyError from get_side_set or get_side_set_df)
\* leaves the target not loaded, with its size and weight count as before.
C22_FailedLoadLeavesSetUnloaded ==
    /\ (\E i \in 1..num_side_sets(ex) :
            get_side_set_df(ex, ex.variables[Name("ss_prop1")][i]).err) => HasLedger
    /\ (last.op = "add_sides_to_sideset" /\ last.outcome = "KeyError")
        => /\ ss_elem[TargetPos] = None
           /\ ss_sides[TargetPos] = None
           /\ ss_dist_fact[TargetPos] = None
           /\ ss_sizes[TargetPos] = pre.ledger.ss_sizes[TargetPos]
           /\ num_dist_fact[TargetPos] = pre.ledger.num_dist_fact[TargetPos]

\* the values an int32 variable holds for the weights arr
AsInt32(arr) == [j \in 1..Len(arr) |-> int32_of_float(arr[j])]

\* C23: a store with two side sets or more has a ledger from which earlier
\* sets can be removed; a seeded set that stands at another list position
\* than its row in the store, because earlier sets were removed, and is not
\* loaded yet is loaded by add_sides_to_sideset with the store's arrays of its own id, and
\* is written by write from the store's arrays of its own id (the weights as
\* the int32 variable holds them), never from the arrays of the store row
\* that has the number of its list position.
C23_ShiftedSetKeepsItsOwnData ==
    /\ num_side_sets(ex) >= 2 => HasLedger
    /\ (/\ last.op = "add_sides_to_sideset"
        /\ last.outcome = "ok"
        /\ pre.ledger.ss_elem[TargetPos] = None
        /\ StoreRowOf(ex, last.ss_id) # TargetPos)
           => /\ ss_elem[TargetPos] = Some(StoredElem(ex, last.ss_id) \o last.elem_ids)
              /\ ss_sides[TargetPos] = Some(StoredSides(ex, last.ss_id) \o last.side_ids)
              /\ ss_dist_fact[TargetPos]
                   = Some(StoredWeights(ex, last.ss_id) \o last.dist_fact[1])
    /\ (last.op = "write" /\ last.outcome = "ok")
           => \A i \in 1..num_ss :
                (ss_elem[i] = None /\ StoreRowOf(ex, ss_prop1[i]) # i)
                    => /\ Written(Suffixed("elem_ss", i), StoredElem(ex, ss_prop1[i]))
                       /\ Written(Suffixed("side_ss", i), StoredSides(ex, ss_prop1[i]))
                       /\ Written(Suffixed("dist_fact_ss", i),
                                  AsInt32(StoredWeights(ex, ss_prop1[i])))
                       /\ \A v \in StoreArraysOf(ex, ss_prop1[i]) : v \in Range(reads)

\* the weights of the set at list position n (1-based) of the ledger: those
\* in memory, else the store's weights of the set's id
WeightsOf(n) ==
    IF ss_dist_fact[n] = None THEN StoredWeights(ex, ss_prop1[n]) ELSE ss_dist_fact[n][1]

\* the variable named name is in the written dataset with len entries
WrittenLength(name, len) ==
    /\ name \in DOMAIN sink.variables
    /\ Len(sink.variables[name]) = len

\* C24: after a write on any ledger that create, remove and append calls
\* have led to, for every set the dimension num_side_ss<i+1> of the dataset
\* is the number of elements and the number of sides the ledger has for the
\* set, num_df_ss<i+1> is the number of its weights, and the set's element,
\* side and weight variables are written with these numbers of entries.
C24_DimensionsMatchWrittenArrays ==
    (last.op = "write" /\ num_ss > 0)
        => \A i \in 1..num_ss :
             /\ Suffixed("num_side_ss", i) \in DOMAIN sink.dimensions
             /\ Suffixed("num_df_ss", i) \in DOMAIN sink.dimensions
             /\ sink.dimensions[Suffixed("num_side_ss", i)] = Len(ElemOf(i))
             /\ sink.dimensions[Suffixed("num_side_ss", i)] = Len(SidesOf(i))
             /\ sink.dimensions[Suffixed("num_df_ss", i)] = Len(WeightsOf(i))
             /\ WrittenLength(Suffixed("elem_ss", i),
                              sink.dimensions[Suffixed("num_side_ss", i)])
             /\ WrittenLength(Suffixed("side_ss", i),
                              sink.dimensions[Suffixed("num_side_ss", i)])
             /\ WrittenLength(Suffixed("dist_fact_ss", i),
                              sink.dimensions[Suffixed("num_df_ss", i)])

\* the store has a side set without a weight variable
StoreHasWeightlessSet ==
    \E i \in 1..num_side_sets(ex) :
        Suffixed("dist_fact_ss", i) \notin DOMAIN ex.variables

\* C25: a store holding a set without weights has a ledger to write; a
\* write on a ledger with sets gives every set its size dimension, and gives
\* a set that has no weights, neither in memory nor in the store, no
\* weight-count dimension and no weight variable.
C25_NoWeightDimensionWithoutWeights ==
    /\ StoreHasWeightlessSet => HasLedger
    /\ (last.op = "write" /\ num_ss > 0)
        => \A i \in 1..num_ss :
             /\ Suffixed("num_side_ss", i) \in DOMAIN sink.dimensions
             /\ (ss_dist_fact[i] = None /\ get_side_set_df(ex, ss_prop1[i]).err)
                  => /\ Suffixed("num_df_ss", i) \notin DOMAIN sink.dimensions
                     /\ Suffixed("dist_fact_ss", i) \notin DOMAIN sink.variables

\* C26: SSLedger(ex) over a store with N side sets yields a ledger of N sets
\* in the store's order, each with the store's id, status and member count of
\* its row and with no array loaded, and reads no member or weight array; a
\* store without the num_side_sets dimension yields an empty ledger.
C26_ConstructionSeedsFromMetadata ==
    /\ SSLedger_outcome(ex) = "ok"
    /\ ncalls = 0 =>
         /\ num_ss = num_side_sets(ex)
         /\ Len(ss_prop1) = num_ss
         /\ \A i \in 1..num_ss :
              /\ ss_prop1[i] = ex.variables[Name("ss_prop1")][i]
              /\ ss_status[i] = ex.variables[Name("ss_status")][i]
              /\ ss_sizes[i] = Len(ex.variables[Suffixed("elem_ss", i)])
              /\ ss_elem[i] = None
              /\ ss_sides[i] = None
              /\ ss_dist_fact[i] = None
         /\ reads = <<>>

\* C27: the eight per-set lists of the ledger all have num_ss entries,
\* whatever calls were made and whether they failed.
C27_ListsHaveCountEntries ==
    HasLedger => \A k \in 1..8 : Len(ListsOf(Ledger)[k]) = num_ss

\* C28: for every id, add_sideset's duplicate test finds the id exactly when
\* find_sideset_num finds it.
C28_DuplicateTestAgreesWithLookup ==
    HasLedger => \A id \in Ids :
        id_in_ledger(ss_prop1, id) <=> find_sideset_num(ss_prop1, num_ss, id) # -1

\* C29: the sets of a store are in the ledger with none of their arrays in
\* memory; every set of the ledger has its element, side and weight arrays
\* either all in memory or none of them; and a set whose arrays were in
\* memory when a call started has them in memory after it, at the position
\* the call left the set at, unless the call removed the set.
C29_LoadedAllOrNothing ==
    /\ num_side_sets(ex) > 0 => (HasLedger /\ (ncalls = 0 => ss_elem[1] = None))
    /\ \A i \in 1..(IF HasLedger THEN num_ss ELSE 0) :
         /\ ss_elem[i] = None <=> ss_sides[i] = None
         /\ ss_elem[i] = None <=> ss_dist_fact[i] = None
    /\ (\/ last.op \in {"add_sideset", "add_sides_to_sideset", "write"}
        \/ last.op = "remove_sideset" /\ last.outcome # "ok")
         => \A i \in 1..pre.ledger.num_ss :
              pre.ledger.ss_elem[i] # None => ss_elem[i] # None
    /\ (last.op = "remove_sideset" /\ last.outcome = "ok")
         => \A i \in 1..pre.ledger.num_ss :
              (i # TargetPos /\ pre.ledger.ss_elem[i] # None)
                  => ss_elem[IF i < TargetPos THEN i ELSE i - 1] # None

\* C30: NodeSetSelector with a list of at least one variable number raises IndexError
\* when a number is outside 1..num_node_set_var; with all numbers inside, it
\* raises ValueError exactly when the truth table row does not have one of
\* the numbered variables set, and otherwise stores the distinct numbers,
\* each less one, in ascending order.
C30_SelectorChecksTruthTable ==
    (last.op = "NodeSetSelector" /\ last.variables # <<>>)
        => LET chosen == Range(last.variables)
               in_range == \A v \in chosen : v >= 1 /\ v <= Len(last.tab)
               all_set == \A v \in chosen : last.tab[v]
           IN  /\ ~in_range => last.outcome = "IndexError"
               /\ in_range => (last.outcome = "ValueError" <=> ~all_set)
               /\ (in_range /\ all_set) =>
                    /\ last.outcome = "ok"
                    /\ Range(last.selection) = {v - 1 : v \in chosen}
                    /\ Len(last.selection) = Cardinality(chosen)
                    /\ \A i, j \in 1..Len(last.selection) :
                         i < j => last.selection[i] < last.selection[j]

====
